---- MODULE Spec2Model ----
(***************************************************************************)
(* The scheduled data-refresh workflow "[schedule] Update from API":       *)
(* Checkout -> Update data from API -> Commit & push, run by the workflow  *)
(* runner once per trigger (cron or manual dispatch) on a fresh hosted     *)
(* runner.  Several runs may be in flight at once: the workflow declares   *)
(* no concurrency group.  The remote branch 'develop' is the only state    *)
(* the runs share.                                                         *)
(*                                                                         *)
(* The custom action ./.github/actions/data-update (Fetcher and Writer) is *)
(* part of the repository but its code is not among the sources; it is     *)
(* modelled from its contract in the specification, sections 4.1 and 4.2.  *)
(***************************************************************************)
EXTENDS Naturals, Sequences, FiniteSets

\* Number of workflow runs the model lets happen (and overlap).
MaxRuns == 2

Runs == 1..MaxRuns

\* ------------------------------------------------------------------ files

\* Dataset categories, in the order the Writer emits them.
CategorySeq == <<"alpha", "beta">>

Categories == {CategorySeq[i] : i \in 1..Len(CategorySeq)}

\* A path is <<directory, base name, extension>>.
DataDir == "src/data"

DatasetFile(c) == <<DataDir, c, "json">>

MarkerFile == <<DataDir, "last_update", "">>

\* A tracked JSON file outside the data directory.
OtherFile == <<".", "package", "json">>

Files == {DatasetFile(c) : c \in Categories} \cup {MarkerFile, OtherFile}

\* file_pattern without the marker file: a plausible slip of the pattern.
MatchesPatternJsonOnly(f) == f[1] = DataDir /\ f[3] = "json"

\* file_pattern '.', the action's default: every file of the working tree.
MatchesPatternAll(f) == f \in Files

\* file_pattern: "src/data/*.json src/data/last_update"
MatchesPattern(f) ==
    \/ f[1] = DataDir /\ f[3] = "json"
    \/ f[1] = DataDir /\ f[2] = "last_update" /\ f[3] = ""

CommitMessage == "[AUTO] Update data."

\* ------------------------------------------------------------------ data

\* What the external API may answer for a category: a token sequence.
Payloads == {<<"a", " ", "1">>, <<"a", " ", "2">>}

IsToken(t) == t # " "

\* Fetcher: normalises an API answer into a structured record.
Normalize(p) == SelectSeq(p, IsToken)

\* Writer: the canonical JSON serialisation of a record.
Serialize(rec) == <<"{">> \o rec \o <<"}">>

\* A file content that parses as JSON: a complete object.
ValidJSON(content) ==
    /\ Len(content) >= 2
    /\ content[1] = "{"
    /\ content[Len(content)] = "}"

\* A file that does not exist in the working tree.
Absent == <<>>

\* The workspace of a freshly provisioned hosted runner.
EmptyTree == [f \in Files |-> Absent]

\* The tree of the branch before the first modelled run: the datasets and the
\* marker of an earlier refresh, and the rest of the repository.
InitialTree ==
    [f \in Files |->
        IF f = MarkerFile THEN <<0>>
        ELSE IF f = OtherFile THEN <<"{", "pkg", "}">>
        ELSE Serialize(Normalize(<<"a", " ", "1">>))]

InitialCommit == [tree |-> InitialTree, message |-> "init", changed |-> {}, run |-> 0]

VARIABLES
    trigger,    \* run -> "none" | "schedule" | "workflow_dispatch"
    pc,         \* run -> where the run is
    status,     \* run -> job status so far: "success" | "failure"
    failures,   \* run -> the errors raised in the run
    attempts,   \* run -> stage -> how often the stage was started
    base,       \* run -> index in log of the commit checked out (0: none)
    ws,         \* run -> the runner's working tree
    records,    \* run -> the Fetcher's in-memory records
    stamp,      \* run -> the run's timestamp (0: none taken)
    outcome,    \* run -> what Commit & push did
    log,        \* the commits of the remote branch 'develop', oldest first
    clock       \* the time, in units of the timestamp's resolution

vars == <<trigger, pc, status, failures, attempts, base, ws, records, stamp,
          outcome, log, clock>>

Stages == {"Fetcher", "Writer", "Publisher"}

\* The head commit of the remote branch.
BranchHead == log[Len(log)]

NoRecords == [c \in Categories |-> <<>>]

Init ==
    /\ trigger = [r \in Runs |-> "none"]
    /\ pc = [r \in Runs |-> "idle"]
    /\ status = [r \in Runs |-> "success"]
    /\ failures = [r \in Runs |-> {}]
    /\ attempts = [r \in Runs |-> [s \in Stages |-> 0]]
    /\ base = [r \in Runs |-> 0]
    /\ ws = [r \in Runs |-> EmptyTree]
    /\ records = [r \in Runs |-> NoRecords]
    /\ stamp = [r \in Runs |-> 0]
    /\ outcome = [r \in Runs |-> "none"]
    /\ log = <<InitialCommit>>
    /\ clock = 1

\* ------------------------------------------------------------- the runner

\* Every step of a run takes time, longer than the resolution of the
\* timestamp: one unit of the one clock all runs read passes per step.
Advance == clock' = clock + 1

NextPc(step) ==
    IF step = "Checkout" THEN "Update"
    ELSE IF step = "Update" THEN "Commit"
    ELSE "done"

\* Every step with `if: always()`.
StepConditionAlways(st) == TRUE

\* No step carries an `if:`; the runner's default is success(): a step runs
\* only while the job status is success, i.e. every earlier step succeeded.
StepCondition(st) == st = "success"

\* Where the runner goes after a step, the job status being st: to the next
\* step when its condition holds; the steps whose condition is false are
\* passed over, and as all steps share the condition, so are all that remain.
AfterStep(step, st) ==
    IF NextPc(step) # "done" /\ StepCondition(st) THEN NextPc(step) ELSE "done"

\* `continue-on-error: true` on the update step.
ContinueOnErrorUpdate(step) == step = "Update"

\* No step sets continue-on-error: a failing step fails the job.
ContinueOnError(step) == FALSE

\* The job status after a step failed.
JobStatusAfterFailure(r, step) == IF ContinueOnError(step) THEN status[r] ELSE "failure"

\* A step of run r ends in error err.
StepFails(r, step, err) ==
    /\ failures' = [failures EXCEPT ![r] = @ \cup {err}]
    /\ status' = [status EXCEPT ![r] = JobStatusAfterFailure(r, step)]
    /\ pc' = [pc EXCEPT ![r] = AfterStep(step, JobStatusAfterFailure(r, step))]

\* A step of run r succeeds.
StepSucceeds(r, step) ==
    /\ pc' = [pc EXCEPT ![r] = AfterStep(step, status[r])]
    /\ UNCHANGED <<status, failures>>

\* on.schedule: the daily cron starts a run.
Schedule(r) ==
    /\ pc[r] = "idle"
    /\ IF r = 1 THEN TRUE ELSE pc[r - 1] # "idle"
    /\ trigger' = [trigger EXCEPT ![r] = "schedule"]
    /\ pc' = [pc EXCEPT ![r] = "Checkout"]
    /\ UNCHANGED <<status, failures, attempts, base, ws, records, stamp,
                   outcome, log, clock>>

\* on.workflow_dispatch: somebody starts a run by hand.
WorkflowDispatch(r) ==
    /\ pc[r] = "idle"
    /\ IF r = 1 THEN TRUE ELSE pc[r - 1] # "idle"
    /\ trigger' = [trigger EXCEPT ![r] = "workflow_dispatch"]
    /\ pc' = [pc EXCEPT ![r] = "Checkout"]
    /\ UNCHANGED <<status, failures, attempts, base, ws, records, stamp,
                   outcome, log, clock>>

\* A runner that keeps the previous run's workspace (self-hosted, not cleaned).
CheckoutTreeStale(r) == IF r > 1 /\ base[r - 1] # 0 THEN ws[r - 1] ELSE BranchHead.tree

\* The working tree after checkout: the tree of the head of ref 'develop'.
CheckoutTree(r) == BranchHead.tree

\* Step "Checkout": actions/checkout@v2 with ref 'develop'.
Checkout(r) ==
    /\ pc[r] = "Checkout"
    /\ base' = [base EXCEPT ![r] = Len(log)]
    /\ ws' = [ws EXCEPT ![r] = CheckoutTree(r)]
    /\ StepSucceeds(r, "Checkout")
    /\ Advance
    /\ UNCHANGED <<trigger, attempts, records, stamp, outcome, log>>

\* Step "Checkout" fails (bad token, remote unreachable).
CheckoutFail(r) ==
    /\ pc[r] = "Checkout"
    /\ StepFails(r, "Checkout", "CheckoutFailure")
    /\ Advance
    /\ UNCHANGED <<trigger, attempts, base, ws, records, stamp, outcome,
                   log>>

\* --------------------------------- step "Update data from API" (data-update)

\* Writer: the files of the first n categories are replaced in full by the
\* serialisations of their records; the other files are left alone.
WriteDatasets(tree, recs, n) ==
    [f \in Files |->
        IF \E i \in 1..n : f = DatasetFile(CategorySeq[i])
          THEN Serialize(recs[f[2]])
          ELSE tree[f]]

\* A Fetcher whose failure is swallowed: the Writer runs on what was collected.
TreeAfterFetchFailurePartial(r) == WriteDatasets(ws[r], NoRecords, Len(CategorySeq))

\* A Fetcher failure is a hard error: the action ends, nothing is written.
TreeAfterFetchFailure(r) == ws[r]

\* The step fails in the Fetcher: authentication fails or the API is
\* unreachable.
FetchFail(r, err) ==
    /\ pc[r] = "Update"
    /\ err \in {"AuthenticationFailure", "NetworkFailure"}
    /\ attempts' = [attempts EXCEPT ![r]["Fetcher"] = @ + 1]
    /\ ws' = [ws EXCEPT ![r] = TreeAfterFetchFailure(r)]
    /\ StepFails(r, "Update", err)
    /\ Advance
    /\ UNCHANGED <<trigger, base, records, stamp, outcome, log>>

\* The step succeeds: the Fetcher collects the API's answers into records, the
\* Writer replaces every dataset file and then writes the run's timestamp to
\* the marker file.
UpdateData(r, answers) ==
    /\ pc[r] = "Update"
    /\ attempts' = [attempts EXCEPT ![r]["Fetcher"] = @ + 1, ![r]["Writer"] = @ + 1]
    /\ LET recs == [c \in Categories |-> Normalize(answers[c])] IN
        /\ records' = [records EXCEPT ![r] = recs]
        /\ ws' = [ws EXCEPT ![r] =
                    [WriteDatasets(@, recs, Len(CategorySeq)) EXCEPT ![MarkerFile] = <<clock>>]]
    /\ stamp' = [stamp EXCEPT ![r] = clock]
    /\ StepSucceeds(r, "Update")
    /\ Advance
    /\ UNCHANGED <<trigger, base, outcome, log>>

\* A write that truncates the file and fails before the content is complete.
FailedWriteTruncated(old, new) == SubSeq(new, 1, Len(new) - 1)

\* A write that fails leaves the file as it was (all-or-nothing per file).
FailedWriteContent(old, new) == old

\* The step fails in the Writer: a filesystem error after n dataset files were
\* written, on dataset file n + 1 or (n the number of categories) on the
\* marker file.
WriteFail(r, answers, n) ==
    /\ pc[r] = "Update"
    /\ n \in 0..Len(CategorySeq)
    /\ attempts' = [attempts EXCEPT ![r]["Fetcher"] = @ + 1, ![r]["Writer"] = @ + 1]
    /\ LET recs == [c \in Categories |-> Normalize(answers[c])]
           written == WriteDatasets(ws[r], recs, n)
       IN
        /\ records' = [records EXCEPT ![r] = recs]
        /\ ws' = [ws EXCEPT ![r] =
                    IF n = Len(CategorySeq) THEN written
                    ELSE LET f == DatasetFile(CategorySeq[n + 1]) IN
                         [written EXCEPT ![f] =
                             FailedWriteContent(@, Serialize(recs[CategorySeq[n + 1]]))]]
    /\ StepFails(r, "Update", "WriteFailure")
    /\ Advance
    /\ UNCHANGED <<trigger, base, stamp, outcome, log>>

\* ------------------------------ step "Commit & push" (git-auto-commit-action)

\* The tree of the commit the run checked out.
BaseTree(r) == IF base[r] = 0 THEN EmptyTree ELSE log[base[r]].tree

\* The files `git add <file_pattern>` stages: those matching the pattern that
\* differ from the checked-out commit.
Staged(r) == {f \in Files : MatchesPattern(f) /\ ws[r][f] # BaseTree(r)[f]}

\* The commit made of the staged files on top of the checked-out commit.
NewCommit(r) ==
    [tree |-> [f \in Files |-> IF f \in Staged(r) THEN ws[r][f] ELSE BaseTree(r)[f]],
     message |-> CommitMessage,
     changed |-> Staged(r),
     run |-> r]

\* push_options: '--force': the remote takes whatever is pushed.
PushAcceptedForce(r) == TRUE

\* git push without options: the remote accepts fast-forwards only.
PushAccepted(r) == Len(log) = base[r]

\* Publisher: stage, and when something is staged, commit and push.
CommitAndPush(r) ==
    /\ pc[r] = "Commit"
    /\ attempts' = [attempts EXCEPT ![r]["Publisher"] = @ + 1]
    /\ IF Staged(r) = {}
         THEN /\ outcome' = [outcome EXCEPT ![r] = "clean"]
              /\ StepSucceeds(r, "Commit")
              /\ UNCHANGED log
         ELSE IF PushAccepted(r)
         THEN /\ log' = Append(SubSeq(log, 1, base[r]), NewCommit(r))
              /\ outcome' = [outcome EXCEPT ![r] = "pushed"]
              /\ StepSucceeds(r, "Commit")
         ELSE /\ outcome' = [outcome EXCEPT ![r] = "rejected"]
              /\ StepFails(r, "Commit", "PublishFailure")
              /\ UNCHANGED log
    /\ Advance
    /\ UNCHANGED <<trigger, base, ws, records, stamp>>

\* Publisher: the push fails for a reason of the remote's (auth, outage).
PushFail(r) ==
    /\ pc[r] = "Commit"
    /\ Staged(r) # {}
    /\ attempts' = [attempts EXCEPT ![r]["Publisher"] = @ + 1]
    /\ outcome' = [outcome EXCEPT ![r] = "pushfailed"]
    /\ StepFails(r, "Commit", "PublishFailure")
    /\ Advance
    /\ UNCHANGED <<trigger, base, ws, records, stamp, log>>

\* ------------------------------------------------------------ environment

EditedOther == <<"{", "pkg", "edited", "}">>

\* An unrelated, uncommitted change is in a run's working tree when the
\* Publisher starts.
UnrelatedChange(r) ==
    /\ pc[r] = "Commit"
    /\ base[r] # 0
    /\ ws[r][OtherFile] # EditedOther
    /\ ws' = [ws EXCEPT ![r][OtherFile] = EditedOther]
    /\ UNCHANGED <<trigger, pc, status, failures, attempts, base, records, stamp, outcome, log, clock>>

Next ==
    \/ \E r \in Runs : Schedule(r)
    \/ \E r \in Runs : WorkflowDispatch(r)
    \/ \E r \in Runs : Checkout(r)
    \/ \E r \in Runs : CheckoutFail(r)
    \/ \E r \in Runs, err \in {"AuthenticationFailure", "NetworkFailure"} : FetchFail(r, err)
    \/ \E r \in Runs, answers \in [Categories -> Payloads] : UpdateData(r, answers)
    \/ \E r \in Runs, answers \in [Categories -> Payloads], n \in 0..Len(CategorySeq) :
          WriteFail(r, answers, n)
    \/ \E r \in Runs : CommitAndPush(r)
    \/ \E r \in Runs : PushFail(r)
    \/ \E r \in Runs : UnrelatedChange(r)

Spec == Init /\ [][Next]_vars

\* ------------------------------------------------------------------ claims

DataFiles == {DatasetFile(c) : c \in Categories} \cup {MarkerFile}

\* The positions in the branch of the commits run r made.
CommitsOf(r) == {i \in 1..Len(log) : log[i].run = r}

UpdateFailed(r) ==
    failures[r] \cap {"AuthenticationFailure", "NetworkFailure", "WriteFailure"} # {}

FetcherFailed(r) == failures[r] \cap {"AuthenticationFailure", "NetworkFailure"} # {}

MarkerTime(tree) == tree[MarkerFile][1]

\* The complete output of the Writer for run r.
WrittenByRun(r, tree) ==
    /\ \A c \in Categories : tree[DatasetFile(c)] = Serialize(records[r][c])
    /\ stamp[r] # 0
    /\ tree[MarkerFile] = <<stamp[r]>>

\* The records behind the datasets of a commit.
FetchedFor(commit) ==
    IF commit.run = 0 THEN [c \in Categories |-> Normalize(<<"a", " ", "1">>)]
    ELSE records[commit.run]

\* C1: a run whose fetch-and-update stage failed never executes Commit & push
\* and adds no commit to the branch: no partial dataset is ever committed.
C1_NoPublishAfterUpdateFailure ==
    \A r \in Runs :
        UpdateFailed(r) =>
            /\ attempts[r]["Publisher"] = 0
            /\ outcome[r] = "none"
            /\ CommitsOf(r) = {}

\* A finished run whose Writer failed with a partial dataset in its data
\* directory, and whose Commit & push step was passed over.
C1_Witness ==
    \E r \in Runs :
        /\ pc[r] = "done"
        /\ "WriteFailure" \in failures[r]
        /\ \E c \in Categories : ws[r][DatasetFile(c)] # BaseTree(r)[DatasetFile(c)]
        /\ \E c \in Categories :
              ws[r][DatasetFile(c)] # Serialize(records[r][c])

\* C2: a run whose checkout, update and push all succeed adds exactly one
\* commit, with message "[AUTO] Update data.", and Commit & push never finds
\* an empty diff.
C2_AlwaysOneCommit ==
    /\ \A r \in Runs : outcome[r] # "clean"
    /\ \A r \in Runs :
          (pc[r] = "done" /\ failures[r] = {}) =>
              /\ outcome[r] = "pushed"
              /\ Cardinality(CommitsOf(r)) = 1
              /\ \A i \in CommitsOf(r) : log[i].message = "[AUTO] Update data."

\* A successful run whose datasets equal the committed ones: only the marker
\* makes the diff.
C2_Witness ==
    \E r \in Runs :
        /\ pc[r] = "done"
        /\ failures[r] = {}
        /\ \A c \in Categories : ws[r][DatasetFile(c)] = BaseTree(r)[DatasetFile(c)]
        /\ \E i \in CommitsOf(r) : log[i].changed = {MarkerFile}

\* C3: the automated commit contains only files matching the pattern; another
\* modified file of the working tree is neither committed nor touched by the
\* Publisher.
C3_OnlyPatternFilesCommitted ==
    [][/\ \A i \in 1..Len(log') :
             /\ log'[i].changed \subseteq DataFiles
             /\ log'[i].tree[OtherFile] = InitialTree[OtherFile]
       /\ \A r \in Runs :
             attempts'[r]["Publisher"] # attempts[r]["Publisher"] => ws'[r] = ws[r]]_vars

\* A run has pushed its commit while its working tree held an unrelated edit.
C3_Witness ==
    \E r \in Runs :
        /\ outcome[r] = "pushed"
        /\ ws[r][OtherFile] = EditedOther
        /\ CommitsOf(r) # {}

\* C4: when the Fetcher fails, every dataset file and the marker file of the
\* run's data directory keep the contents they had, and the Writer is not run.
C4_FetcherFailureWritesNothing ==
    \A r \in Runs :
        FetcherFailed(r) =>
            /\ \A f \in DataFiles : ws[r][f] = BaseTree(r)[f]
            /\ attempts[r]["Writer"] = 0

\* A finished run whose Fetcher failed on a checked-out tree that an earlier
\* run of the model had refreshed.
C4_Witness ==
    \E r \in Runs :
        /\ pc[r] = "done"
        /\ FetcherFailed(r)
        /\ base[r] > 1

\* C5: whenever the branch changes, the marker's timestamp of the new head is
\* strictly greater than that of the head before.
C5_MarkerStrictlyIncreases ==
    [][log' # log => MarkerTime(BranchHead'.tree) > MarkerTime(BranchHead.tree)]_vars

\* A manual run has succeeded after a scheduled run that it overlapped with,
\* on top of that run's commit.
C5_Witness ==
    /\ Len(log) = 3
    /\ log[2].run = 1
    /\ log[3].run = 2
    /\ trigger[1] = "schedule"
    /\ trigger[2] = "workflow_dispatch"
    /\ stamp[2] > stamp[1]

\* C6: a successful run that fetched the same data as the successful run
\* before it leaves every dataset file as it was and commits the marker only.
C6_IdenticalDataChangesOnlyMarker ==
    \A i \in 2..Len(log) :
        FetchedFor(log[i]) = FetchedFor(log[i - 1]) =>
            /\ log[i].changed = {MarkerFile}
            /\ \A c \in Categories :
                  /\ log[i].tree[DatasetFile(c)] = log[i - 1].tree[DatasetFile(c)]
                  /\ ws[log[i].run][DatasetFile(c)] = log[i - 1].tree[DatasetFile(c)]

\* Two runs have succeeded one after the other on the same upstream data,
\* data that differ from those of the first commit of the branch.
C6_Witness ==
    /\ Len(log) = 3
    /\ FetchedFor(log[3]) = FetchedFor(log[2])
    /\ FetchedFor(log[2]) # FetchedFor(log[1])
    /\ log[3].changed = {MarkerFile}

\* C7: a finished run reports success only if Fetcher, Writer and Publisher
\* each ran once and none failed; any failure makes the run report failure;
\* no stage is started twice.
C7_SuccessOnlyIfAllStagesSucceed ==
    \A r \in Runs :
        /\ \A s \in Stages : attempts[r][s] <= 1
        /\ (pc[r] = "done" /\ status[r] = "success") =>
              /\ failures[r] = {}
              /\ \A s \in Stages : attempts[r][s] = 1
              /\ outcome[r] \in {"pushed", "clean"}
        /\ (pc[r] = "done" /\ failures[r] # {}) => status[r] = "failure"

\* One run has reported success and another failure after a Writer error.
C7_Witness ==
    \E r, q \in Runs :
        /\ pc[r] = "done" /\ status[r] = "success"
        /\ pc[q] = "done" /\ status[q] = "failure"
        /\ failures[q] = {"WriteFailure"}

\* C8: every dataset file of a data directory holds its complete previous or
\* its complete new contents, and parses as JSON, whenever it exists.
C8_NoHalfWrittenFile ==
    \A r \in Runs : \A c \in Categories :
        LET content == ws[r][DatasetFile(c)] IN
        /\ content \in {BaseTree(r)[DatasetFile(c)], Serialize(records[r][c])}
        /\ content # Absent => ValidJSON(content)

\* The Writer failed on its second file, after the first was replaced by new
\* contents, and the second file's new contents would have differed too.
C8_Witness ==
    \E r \in Runs :
        /\ "WriteFailure" \in failures[r]
        /\ ws[r][DatasetFile(CategorySeq[2])] = BaseTree(r)[DatasetFile(CategorySeq[2])]
        /\ ws[r][DatasetFile(CategorySeq[1])] # BaseTree(r)[DatasetFile(CategorySeq[1])]
        /\ Serialize(records[r][CategorySeq[2]]) # BaseTree(r)[DatasetFile(CategorySeq[2])]

PushFailed(r) == outcome[r] \in {"pushfailed", "rejected"}

\* C9: a failed push ends the run in failure with the branch unchanged and the
\* complete new artifacts and marker in the local data directory; a checkout
\* gives the run the tree of the remote head, whatever other runs left.
C9_PushFailureTerminalAndLocal ==
    [][\A r \in Runs :
          /\ (PushFailed(r)' /\ ~PushFailed(r)) => log' = log
          /\ PushFailed(r)' =>
                /\ pc'[r] = "done"
                /\ status'[r] = "failure"
                /\ CommitsOf(r)' = {}
                /\ WrittenByRun(r, ws[r])'
          /\ (pc[r] = "Checkout" /\ base'[r] # 0) => ws'[r] = BranchHead.tree]_vars

\* A run's push has failed, leaving a data directory that differs from the
\* branch, and another run has checked out the branch and updated its own
\* data directory.
C9_Witness ==
    \E r, q \in Runs :
        /\ r < q
        /\ outcome[r] = "pushfailed"
        /\ \E c \in Categories : ws[r][DatasetFile(c)] # BranchHead.tree[DatasetFile(c)]
        /\ pc[q] = "Commit"
        /\ stamp[q] > stamp[r]
        /\ \A c \in Categories : ws[q][DatasetFile(c)] = BranchHead.tree[DatasetFile(c)]

\* C10: every commit of the branch holds the datasets and the marker of one
\* single complete run; a run whose push is rejected ends in failure without
\* a commit on the branch; a pushed commit stays on the branch.
C10_HeadFromOneCompleteRun ==
    /\ \A i \in 1..Len(log) : log[i].run # 0 => WrittenByRun(log[i].run, log[i].tree)
    /\ \A r \in Runs :
          /\ outcome[r] = "rejected" =>
                pc[r] = "done" /\ status[r] = "failure" /\ CommitsOf(r) = {}
          /\ outcome[r] = "pushed" => CommitsOf(r) # {}

\* A manual dispatch overlapped a scheduled run: both checked out the same
\* commit and fetched different data; one was pushed, the other rejected.
C10_Witness ==
    \E r, q \in Runs :
        /\ base[r] = base[q]
        /\ trigger[r] # trigger[q]
        /\ outcome[r] = "pushed"
        /\ outcome[q] = "rejected"
        /\ records[r] # records[q]

====
